---- MODULE Spec2Model ----
(***************************************************************************)
(* Model of ordermatching.py: the loader and vendor ("Blockboard") cleaner *)
(* load_and_process_data, the three per-client matching functions, the     *)
(* metric calculations, and the run of the script as a whole.              *)
(*                                                                         *)
(* A text (a CSV cell, a column name) is a sequence of characters.  A      *)
(* character is a TLA+ string: a printable ASCII character is itself, form *)
(* feed, tab, line feed and carriage return are "\f", "\t", "\n", "\r",    *)
(* and any other character is named by its code point, "U+00A0".           *)
(* A value of a DataFrame column read from a CSV is a record [t, s]: t is  *)
(* the Python type of the element ("str", "int" or "float") and s is       *)
(* str(element).  A DataFrame is a sequence of rows; every row carries its *)
(* pandas index label idx (read_csv gives the RangeIndex 0, 1, 2, ...).    *)
(* The "Leads" cells are numbers.                                          *)
(*                                                                         *)
(* What pandas does is described for these cells.  A number cell is a      *)
(* whole number of at most MaxInt64Digits digits in a column of whole      *)
(* numbers without missing values, and otherwise a whole or decimal number *)
(* written with at most MaxDigits digits, leading zeros included, at most  *)
(* MaxFraction of them after the point.  A date column holds, besides      *)
(* missing values, either whole numbers or texts of the form               *)
(* digits/digits/year with a four-digit year.                              *)
(* A column of another kind (longer numbers, exponents, infinities, words  *)
(* for True and False, dates spelled otherwise) has the type "other", and  *)
(* no step is described for a file that has such a column.                 *)
(***************************************************************************)
EXTENDS Integers, Sequences, FiniteSets, TLC

VARIABLES
    client_selection,          \* st.selectbox value
    files,                     \* the uploaders that hold a file (the others are None)
    uploaded_client_file,      \* the rows of the client CSV, as text cells
    uploaded_blockboard_file,  \* the rows of the vendor CSV, as text cells
    cpa,                       \* st.number_input "Enter CPA"
    blockboard_spend,          \* st.number_input "Enter Blockboard Media Spend"
    client_df,                 \* first result of load_and_process_data
    blockboard_df_deduped,     \* second result of load_and_process_data
    num_blockboard_orders_unique,
    num_blockboard_orders,
    passed_df,                 \* the vendor frame handed to the matching function
    matcher,                   \* name of the matching function that ran
    match_count,
    matched_df,
    metrics,                   \* revenue, profit, profit_margin, cpo
    shown,                     \* what the page has displayed so far
    exception,                 \* "none" or the exception that ended the run
    bound,                     \* the names assigned so far
    pc

\* the values of the page's widgets
inputs == <<client_selection, files, uploaded_client_file, uploaded_blockboard_file,
            cpa, blockboard_spend>>

\* what load_and_process_data and lines 130-131 assign
loaded_names == <<client_df, blockboard_df_deduped, num_blockboard_orders_unique,
                  num_blockboard_orders>>

\* what a matching function's call assigns
matched_names == <<passed_df, matcher, match_count, matched_df>>

vars == <<inputs, loaded_names, matched_names, metrics, shown, exception, bound, pc>>

\* ---------------------------------------------------------------- bounds
MaxVendorRows == 3
MaxClientRows == 2
MaxMatchCount == 10

\* ------------------------------------------------------------- text helpers
\* the characters str.strip() removes: those for which str.isspace() holds
Whitespace ==
    {"\t", "\n", "U+000B", "\f", "\r", "U+001C", "U+001D", "U+001E", "U+001F",
     " ", "U+0085", "U+00A0", "U+1680", "U+2000", "U+2001", "U+2002", "U+2003",
     "U+2004", "U+2005", "U+2006", "U+2007", "U+2008", "U+2009", "U+200A",
     "U+2028", "U+2029", "U+202F", "U+205F", "U+3000"}

RECURSIVE LStrip(_)
LStrip(s) ==
    IF s = <<>> THEN s
    ELSE IF Head(s) \in Whitespace THEN LStrip(Tail(s)) ELSE s

RECURSIVE RStrip(_)
RStrip(s) ==
    IF s = <<>> THEN s
    ELSE IF s[Len(s)] \in Whitespace THEN RStrip(SubSeq(s, 1, Len(s) - 1)) ELSE s

\* str.strip(): leading and trailing whitespace removed, case kept
Strip(s) == RStrip(LStrip(s))

\* str.contains(pat) for a pattern without regex metacharacters
Contains(s, pat) ==
    \E i \in 1..(Len(s) - Len(pat) + 1) : SubSeq(s, i, i + Len(pat) - 1) = pat

\* str.startswith(prefix)
StartsWith(s, prefix) ==
    /\ Len(s) >= Len(prefix)
    /\ SubSeq(s, 1, Len(prefix)) = prefix

VALUE == <<"V", "A", "L", "U", "E">>
LeadsPrefix == <<"L", "e", "a", "d", "s">>

Digits == {"0", "1", "2", "3", "4", "5", "6", "7", "8", "9"}

IsDigits(s) == s # <<>> /\ \A i \in 1..Len(s) : s[i] \in Digits

\* code points of the characters date cells are made of
Ord(c) ==
    CASE c = "/" -> 47
      [] c = "0" -> 48 [] c = "1" -> 49 [] c = "2" -> 50 [] c = "3" -> 51
      [] c = "4" -> 52 [] c = "5" -> 53 [] c = "6" -> 54 [] c = "7" -> 55
      [] c = "8" -> 56 [] c = "9" -> 57

\* Python's < on str: lexicographic by code point
RECURSIVE StrLess(_, _)
StrLess(a, b) ==
    IF b = <<>> THEN FALSE
    ELSE IF a = <<>> THEN TRUE
    ELSE IF Head(a) = Head(b) THEN StrLess(Tail(a), Tail(b))
    ELSE Ord(Head(a)) < Ord(Head(b))

RECURSIVE ParseInt(_, _)
ParseInt(s, acc) ==
    IF s = <<>> THEN acc ELSE ParseInt(Tail(s), 10 * acc + (Ord(Head(s)) - 48))

RECURSIVE SplitSlash(_, _)
SplitSlash(s, cur) ==
    IF s = <<>> THEN <<cur>>
    ELSE IF Head(s) = "/" THEN <<cur>> \o SplitSlash(Tail(s), <<>>)
    ELSE SplitSlash(Tail(s), Append(cur, Head(s)))

\* ------------------------------------------------------------ frame helpers
\* the rows of df at the positions in S, in their order in df
RECURSIVE RowsAt(_, _, _)
RowsAt(df, S, i) ==
    IF i > Len(df) THEN <<>>
    ELSE (IF i \in S THEN <<df[i]>> ELSE <<>>) \o RowsAt(df, S, i + 1)

\* insertion of the pair p = <<key, row>> into the sorted pairs ps, after
\* every pair whose key is not greater
RECURSIVE InsertSorted(_, _)
InsertSorted(ps, p) ==
    IF ps = <<>> THEN <<p>>
    ELSE IF p[1] < Head(ps)[1] THEN <<p>> \o ps
    ELSE <<Head(ps)>> \o InsertSorted(Tail(ps), p)

RECURSIVE SortPairs(_)
SortPairs(ps) ==
    IF ps = <<>> THEN <<>>
    ELSE InsertSorted(SortPairs(SubSeq(ps, 1, Len(ps) - 1)), ps[Len(ps)])

\* the rows of the pairs <<key, row>>
RECURSIVE RowsOf(_)
RowsOf(ps) == IF ps = <<>> THEN <<>> ELSE <<Head(ps)[2]>> \o RowsOf(Tail(ps))

\* DataFrame.sort_values(by=...), keys[i] being the sort key of df[i]: numpy's
\* quicksort is an insertion sort on arrays of at most 16 elements, so within
\* the bounds here equal keys keep their order
SortValues(df, keys) == RowsOf(SortPairs([i \in 1..Len(df) |-> <<keys[i], df[i]>>]))

\* ------------------------------------------------------------- pd.read_csv
\* the cells read_csv takes for missing values (its default na_values)
NaValues ==
    {<<>>, <<"#", "N", "/", "A">>, <<"#", "N", "/", "A", " ", "N", "/", "A">>, <<"#", "N", "A">>, <<"-", "1", ".", "#", "I", "N", "D">>, <<"-", "1", ".", "#", "Q", "N", "A", "N">>, <<"-", "N", "a", "N">>,
     <<"-", "n", "a", "n">>, <<"1", ".", "#", "I", "N", "D">>, <<"1", ".", "#", "Q", "N", "A", "N">>, <<"<", "N", "A", ">">>, <<"N", "/", "A">>, <<"N", "A">>, <<"N", "U", "L", "L">>,
     <<"N", "a", "N">>, <<"N", "o", "n", "e">>, <<"n", "/", "a">>, <<"n", "a", "n">>, <<"n", "u", "l", "l">>}

\* float('nan'): str(nan) is 'nan'
NaN == [t |-> "float", s |-> <<"n", "a", "n">>]

\* the spaces the parser skips around a number
AsciiSpace == {" ", "\t", "\n", "U+000B", "\f", "\r"}

RECURSIVE SkipSpaces(_)
SkipSpaces(s) ==
    IF s # <<>> /\ Head(s) \in AsciiSpace THEN SkipSpaces(Tail(s)) ELSE s

RECURSIVE SkipTrailingSpaces(_)
SkipTrailingSpaces(s) ==
    IF s # <<>> /\ s[Len(s)] \in AsciiSpace
    THEN SkipTrailingSpaces(SubSeq(s, 1, Len(s) - 1)) ELSE s

\* whether the number in the cell carries a minus sign
IsNegative(cell) ==
    LET p == SkipSpaces(cell) IN p # <<>> /\ Head(p) = "-"

\* the cell without the spaces around it and without its sign
Unsigned(cell) ==
    LET p == SkipTrailingSpaces(SkipSpaces(cell))
    IN  IF p # <<>> /\ Head(p) \in {"+", "-"} THEN Tail(p) ELSE p

\* the digits before and after the decimal point, <<>> when there is not
\* exactly one point
RECURSIVE SplitPoint(_, _)
SplitPoint(s, before) ==
    IF s = <<>> THEN <<>>
    ELSE IF Head(s) = "." THEN <<before, Tail(s)>>
    ELSE SplitPoint(Tail(s), Append(before, Head(s)))

RECURSIVE DropLeadingZeros(_)
DropLeadingZeros(s) ==
    IF Len(s) > 1 /\ Head(s) = "0" THEN DropLeadingZeros(Tail(s)) ELSE s

RECURSIVE DropTrailingZeros(_)
DropTrailingZeros(s) ==
    IF Len(s) > 1 /\ s[Len(s)] = "0"
    THEN DropTrailingZeros(SubSeq(s, 1, Len(s) - 1)) ELSE s

\* the digits a number cell may have.  The parser of whole numbers passes
\* over leading zeros, and a whole number of at most 18 digits is an int64.
\* The parser of float64 numbers counts every digit it reads, leading zeros
\* included, and keeps the first 17: a cell written with at most 15 digits
\* is read in full and is a float64 exactly as written, and with at most 2
\* of them after the point str() writes it without an exponent
MaxInt64Digits == 18
MaxDigits == 15
MaxFraction == 2

\* a whole number: spaces, a sign, digits, spaces
IsInteger(cell) ==
    /\ IsDigits(Unsigned(cell))
    /\ Len(DropLeadingZeros(Unsigned(cell))) <= MaxInt64Digits

\* a whole number written with no more digits, leading zeros included, than
\* the float64 parser reads in full
FitsFloat(cell) == Len(Unsigned(cell)) <= MaxDigits

\* a number written with a decimal point and with no more digits, leading
\* zeros included, than the float64 parser reads in full
IsDecimal(cell) ==
    LET parts == SplitPoint(Unsigned(cell), <<>>)
    IN  /\ parts # <<>>
        /\ parts[1] \o parts[2] # <<>>
        /\ \A k \in 1..2 : \A i \in 1..Len(parts[k]) : parts[k][i] \in Digits
        /\ Len(parts[2]) <= MaxFraction
        /\ Len(parts[1]) + Len(parts[2]) <= MaxDigits

\* str.lower() of an ASCII letter
Lower(c) ==
    CASE c = "A" -> "a"
      [] c = "B" -> "b"
      [] c = "C" -> "c"
      [] c = "D" -> "d"
      [] c = "E" -> "e"
      [] c = "F" -> "f"
      [] c = "G" -> "g"
      [] c = "H" -> "h"
      [] c = "I" -> "i"
      [] c = "J" -> "j"
      [] c = "K" -> "k"
      [] c = "L" -> "l"
      [] c = "M" -> "m"
      [] c = "N" -> "n"
      [] c = "O" -> "o"
      [] c = "P" -> "p"
      [] c = "Q" -> "q"
      [] c = "R" -> "r"
      [] c = "S" -> "s"
      [] c = "T" -> "t"
      [] c = "U" -> "u"
      [] c = "V" -> "v"
      [] c = "W" -> "w"
      [] c = "X" -> "x"
      [] c = "Y" -> "y"
      [] c = "Z" -> "z"
      [] OTHER -> c

\* a cell the parser may take for a number: one made of digits, points,
\* signs and the exponent letters only, or a word for infinity
MayBeNumber(cell) ==
    LET core == SkipTrailingSpaces(SkipSpaces(cell))
        word == Unsigned(cell)
    IN  \/ /\ \E i \in 1..Len(core) : core[i] \in Digits
           /\ \A i \in 1..Len(core) : core[i] \in Digits \cup {".", "e", "E", "+", "-"}
        \/ /\ Len(word) \in {3, 8}
           /\ [i \in 1..Len(word) |-> Lower(word[i])] \in {<<"i", "n", "f">>, <<"i", "n", "f", "i", "n", "i", "t", "y">>}

\* a cell the parser takes for True or False, in any case of the letters
IsBoolWord(cell) ==
    /\ Len(cell) \in {4, 5}
    /\ [i \in 1..Len(cell) |-> Lower(cell[i])] \in {<<"t", "r", "u", "e">>, <<"f", "a", "l", "s", "e">>}

\* str(int(cell))
IntStr(cell) ==
    LET digits == DropLeadingZeros(Unsigned(cell))
    IN  IF IsNegative(cell) /\ digits # <<"0">> THEN <<"-">> \o digits ELSE digits

\* str(float(cell)) of a whole or decimal number
FloatStr(cell) ==
    LET parts == IF IsInteger(cell) THEN <<Unsigned(cell), <<>>>>
                 ELSE SplitPoint(Unsigned(cell), <<>>)
        whole == IF parts[1] = <<>> THEN <<"0">> ELSE DropLeadingZeros(parts[1])
        fraction == IF parts[2] = <<>> THEN <<"0">> ELSE DropTrailingZeros(parts[2])
    IN  (IF IsNegative(cell) THEN <<"-">> ELSE <<>>) \o whole \o <<".">> \o fraction

\* the dtype read_csv gives a column.  Missing-value cells aside: when every
\* cell is a whole number the column is int64, and where a cell is missing
\* the int64 values are then made float64; when every cell is a whole or a
\* decimal number the column is float64; a column of cells that may be
\* numbers of another kind (more digits, an exponent, infinity), or of words
\* for True and False, is "other"; any other column is object and keeps its
\* cells as str
ColumnType(cells) ==
    LET present == {i \in DOMAIN cells : cells[i] \notin NaValues}
    IN  IF present = {} THEN "float64"
        ELSE IF \A i \in present : IsInteger(cells[i])
        THEN (IF present = DOMAIN cells THEN "int64"
              ELSE IF \A i \in present : FitsFloat(cells[i])
              THEN "int64 made float64" ELSE "other")
        ELSE IF \A i \in present : \/ (IsInteger(cells[i]) /\ FitsFloat(cells[i]))
                                    \/ IsDecimal(cells[i])
        THEN "float64"
        ELSE IF \/ \A i \in present : MayBeNumber(cells[i])
                \/ \A i \in present : IsBoolWord(cells[i])
        THEN "other"
        ELSE "object"

\* the value read_csv makes of a cell in a column of the given dtype
ReadCell(cell, dtype) ==
    IF cell \in NaValues THEN NaN
    ELSE IF dtype = "int64" THEN [t |-> "int", s |-> IntStr(cell)]
    ELSE IF dtype = "int64 made float64"
    THEN [t |-> "float", s |-> IntStr(cell) \o <<".", "0">>]
    ELSE IF dtype = "float64" THEN [t |-> "float", s |-> FloatStr(cell)]
    ELSE IF dtype = "object" THEN [t |-> "str", s |-> cell]
    ELSE [t |-> "other", s |-> cell]

\* the values read_csv makes of one column's cells
ReadColumn(cells) ==
    LET dtype == ColumnType(cells)
    IN  [i \in DOMAIN cells |-> ReadCell(cells[i], dtype)]

\* line 59: pd.read_csv(uploaded_client_file)
ReadClientCsv(file) ==
    LET ids == ReadColumn([i \in 1..Len(file) |-> file[i].transaction_id])
        media == ReadColumn([i \in 1..Len(file) |-> file[i].order_medium])
        dates == ReadColumn([i \in 1..Len(file) |-> file[i].easternstandardate])
    IN  [i \in 1..Len(file) |->
            [idx |-> i - 1,
             row |-> [transaction_id |-> ids[i],
                      order_medium |-> media[i],
                      easternstandardate |-> dates[i]]]]

\* line 60: pd.read_csv(uploaded_blockboard_file)
ReadBlockboardCsv(file) ==
    LET ids == ReadColumn([i \in 1..Len(file) |-> file[i].OrderID])
        dates == ReadColumn([i \in 1..Len(file) |-> file[i].Date])
    IN  [i \in 1..Len(file) |->
            [idx |-> i - 1,
             row |-> [OrderID |-> ids[i], Date |-> dates[i],
                      cells |-> file[i].cells]]]

\* astype(str) of a value
AsStr(v) == [t |-> "str", s |-> v.s]

\* ----------------------------------------------------------- pd.to_datetime
DaysInMonth(m, y) ==
    IF m = 2
    THEN (IF y % 4 = 0 /\ (y % 100 # 0 \/ y % 400 = 0) THEN 29 ELSE 28)
    ELSE IF m \in {4, 6, 9, 11} THEN 30 ELSE 31

\* pd.NaT, the conversion of a missing value
NaT == [t |-> "NaT", s |-> <<>>]

\* the first and the last midnight a Timestamp can hold, as year, month, day
\* (Timestamp.min is 1677-09-21 00:12:43, Timestamp.max 2262-04-11 23:47:16)
FirstDate == 16770922
LastDate == 22620411

MonthFirst == "%m/%d/%Y"
DayFirst == "%d/%m/%Y"

\* a text of one or two digits, "/", one or two digits, "/", a year of four
\* digits that is not 0000
IsSlashDate(s) ==
    LET f == SplitSlash(s, <<>>)
    IN  /\ Len(f) = 3
        /\ IsDigits(f[1]) /\ Len(f[1]) <= 2
        /\ IsDigits(f[2]) /\ Len(f[2]) <= 2
        /\ IsDigits(f[3]) /\ Len(f[3]) = 4
        /\ ParseInt(f[3], 0) >= 1

\* year, month and day of such a text, read in the given format
DateFields(s, format) ==
    LET f == SplitSlash(s, <<>>)
    IN  [y |-> ParseInt(f[3], 0),
         m |-> ParseInt(IF format = MonthFirst THEN f[1] ELSE f[2], 0),
         d |-> ParseInt(IF format = MonthFirst THEN f[2] ELSE f[1], 0)]

\* whether the text, read in the format, is a day of the calendar
IsCalendarDate(s, format) ==
    LET f == DateFields(s, format)
    IN  f.m \in 1..12 /\ f.d \in 1..DaysInMonth(f.m, f.y)

\* year * 10000 + month * 100 + day
DateNumber(s, format) ==
    LET f == DateFields(s, format) IN f.y * 10000 + f.m * 100 + f.d

\* whether the text, read in the format, is a day a Timestamp can hold
DateParses(s, format) ==
    IsCalendarDate(s, format) /\ DateNumber(s, format) \in FirstDate..LastDate

\* the format pd.to_datetime infers from the first text of a column: the
\* first number is the month unless it is above 12, and then it is the day;
\* "none" when the text is no day of the calendar either way
GuessFormat(s) ==
    IF ParseInt(SplitSlash(s, <<>>)[1], 0) <= 12
    THEN (IF IsCalendarDate(s, MonthFirst) THEN MonthFirst ELSE "none")
    ELSE (IF IsCalendarDate(s, DayFirst) THEN DayFirst ELSE "none")

\* whether a float64 value is a whole number
IsWhole(v) ==
    LET parts == SplitPoint(v.s, <<>>) IN parts # <<>> /\ parts[2] = <<"0">>

\* str(int(v)) of an int64 value or a whole float64 value
IntegerText(v) ==
    IF v.t = "int" THEN v.s
    ELSE LET whole == SplitPoint(v.s, <<>>)[1]
         IN  IF whole = <<"-", "0">> THEN <<"0">> ELSE whole

\* a < b for two texts of digits without leading zeros
MagnitudeLess(a, b) == Len(a) < Len(b) \/ (Len(a) = Len(b) /\ StrLess(a, b))

\* a < b for two whole numbers written by str(int)
NumLess(a, b) ==
    IF Head(a) = "-"
    THEN (IF Head(b) = "-" THEN MagnitudeLess(Tail(b), Tail(a)) ELSE TRUE)
    ELSE (IF Head(b) = "-" THEN FALSE ELSE MagnitudeLess(a, b))

\* the positions of a column that hold a value
Present(column) == {i \in DOMAIN column : column[i] # NaN}

\* how pd.to_datetime reads a column: "missing" when it holds no value,
\* "numbers" when it holds whole numbers (nanoseconds since 1970-01-01),
\* for texts digits/digits/year the format inferred from the first of
\* them, and "other" for any other column
DateColumnKind(column) ==
    LET present == Present(column)
        first == CHOOSE i \in present : \A j \in present : i <= j
    IN  IF present = {} THEN "missing"
        ELSE IF \A i \in present : column[i].t = "int" THEN "numbers"
        ELSE IF \A i \in present : column[i].t = "float" /\ IsWhole(column[i])
        THEN "numbers"
        ELSE IF \A i \in present : column[i].t = "str" /\ IsSlashDate(column[i].s)
        THEN GuessFormat(column[first].s)
        ELSE "other"

\* whether pd.to_datetime(column) raises ValueError (or OutOfBoundsDatetime,
\* a ValueError): no format can be inferred from the first text, or a text
\* is not a day a Timestamp can hold when read in the inferred format
ConversionRaises(column) ==
    LET kind == DateColumnKind(column)
    IN  \/ kind = "none"
        \/ /\ kind \in {MonthFirst, DayFirst}
           /\ \E i \in Present(column) : ~DateParses(column[i].s, kind)

\* one or two digits written with two
TwoDigits(s) == IF Len(s) = 1 THEN <<"0">> \o s ELSE s

\* the Timestamp of a day, its s being year-month-day
DayTimestamp(s, format) ==
    LET f == SplitSlash(s, <<>>)
        month == IF format = MonthFirst THEN f[1] ELSE f[2]
        day == IF format = MonthFirst THEN f[2] ELSE f[1]
    IN  [t |-> "Timestamp",
         s |-> f[3] \o <<"-">> \o TwoDigits(month) \o <<"-">> \o TwoDigits(day)]

\* the Timestamp that many nanoseconds after 1970-01-01 00:00:00
NanosecondTimestamp(n) ==
    [t |-> "Timestamp", s |-> <<"1", "9", "7", "0", "-", "0", "1", "-", "0", "1", " ", "0", "0", ":", "0", "0", ":", "0", "0", " ", "+", " ">> \o n \o <<" ", "n", "s">>]

\* pd.to_datetime(column) of a column it accepts
ToDatetime(column) ==
    LET kind == DateColumnKind(column)
    IN  [i \in DOMAIN column |->
            IF column[i] = NaN THEN NaT
            ELSE IF kind = "numbers" THEN NanosecondTimestamp(IntegerText(column[i]))
            ELSE DayTimestamp(column[i].s, kind)]

\* sort keys that order the rows as their converted dates do, NaT last: the
\* key of a row is the number of rows with an earlier date
DatetimeKeys(column) ==
    LET kind == DateColumnKind(column)
        Earlier(i, j) ==
            IF kind = "numbers"
            THEN NumLess(IntegerText(column[i]), IntegerText(column[j]))
            ELSE DateNumber(column[i].s, kind) < DateNumber(column[j].s, kind)
    IN  [i \in DOMAIN column |->
            IF column[i] = NaN THEN Len(column)
            ELSE Cardinality({j \in Present(column) : Earlier(j, i)})]

\* sort keys that order the rows as the values of the column as read do,
\* numbers by size and texts by code point, nan last
ValueKeys(column) ==
    LET Before(i, j) ==
            IF column[i].t = "str" THEN StrLess(column[i].s, column[j].s)
            ELSE NumLess(IntegerText(column[i]), IntegerText(column[j]))
    IN  [i \in DOMAIN column |->
            IF column[i] = NaN THEN Len(column)
            ELSE Cardinality({j \in Present(column) : Before(j, i)})]

\* ------------------------------------------------- load_and_process_data
\* blockboard_df['Order ID'].astype(str).str.strip()
StripOrderIds(df) ==
    [i \in 1..Len(df) |-> [df[i] EXCEPT !.row.OrderID = [t |-> "str", s |-> Strip(@.s)]]]

\* a filter that drops only the ids equal to "VALUE"
DropValueRowsExact(df) ==
    RowsAt(df, {i \in 1..Len(df) : df[i].row.OrderID.s # VALUE}, 1)

\* blockboard_df[~blockboard_df['Order ID'].str.contains("VALUE")]
DropValueRows(df) ==
    RowsAt(df, {i \in 1..Len(df) : ~Contains(df[i].row.OrderID.s, VALUE)}, 1)

\* drop_duplicates(subset='Order ID', keep='last')
DropDuplicatesKeepLast(df) ==
    RowsAt(df, {i \in 1..Len(df) :
                  \A j \in (i + 1)..Len(df) : df[j].row.OrderID # df[i].row.OrderID}, 1)

\* drop_duplicates(subset='Order ID', keep='first')
DropDuplicates(df) ==
    RowsAt(df, {i \in 1..Len(df) :
                  \A j \in 1..(i - 1) : df[j].row.OrderID # df[i].row.OrderID}, 1)

Min(a, b) == IF a <= b THEN a ELSE b

\* a clamp that forgets the column-name test
ClipEveryColumn(df) ==
    [i \in 1..Len(df) |->
        [df[i] EXCEPT !.row.cells = [c \in DOMAIN @ |-> Min(@[c], 1)]]]

\* for column in columns: if column.startswith("Leads"): clip(upper=1)
ClipLeads(df) ==
    [i \in 1..Len(df) |->
        [df[i] EXCEPT !.row.cells =
            [c \in DOMAIN @ |-> IF StartsWith(c, LeadsPrefix) THEN Min(@[c], 1) ELSE @[c]]]]

\* lines 63-64: blockboard_df, the ids trimmed and the "VALUE" rows dropped
FilteredBlockboard(df) == DropValueRows(StripOrderIds(df))

\* the cleaning with the dedup done on the untrimmed ids
CleanDedupBeforeTrim(df) == ClipLeads(DropValueRows(StripOrderIds(DropDuplicates(df))))

\* lines 63-69: trim, drop "VALUE" rows, dedup keeping the first, clamp
CleanSteps(df) == ClipLeads(DropDuplicates(FilteredBlockboard(df)))

\* the Date column of a vendor frame, and the date column of a client frame
VendorDates(df) == [i \in 1..Len(df) |-> df[i].row.Date]
ClientDates(df) == [i \in 1..Len(df) |-> df[i].row.easternstandardate]

\* line 82: the deduped frame's Date column was never converted (line 78
\* converts the column of blockboard_df, another frame), so the frame is
\* sorted by the values as read: texts as text, numbers by size, nan last
SortBlockboard(df) == SortValues(df, ValueKeys(VendorDates(df)))

\* line 77: the client's date column is replaced by its conversion
ConvertClientDates(df) ==
    LET converted == ToDatetime(ClientDates(df))
    IN  [i \in 1..Len(df) |-> [df[i] EXCEPT !.row.easternstandardate = converted[i]]]

\* lines 77 and 81: the client dates are converted and stored, then the
\* frame is sorted by them, NaT last
SortClient(df) == SortValues(ConvertClientDates(df), DatetimeKeys(ClientDates(df)))

\* the vendor half of load_and_process_data, on a frame
VendorCleaner(df) == SortBlockboard(CleanSteps(df))

NoFrame == <<>>

\* whether a frame as read has a column of type "other"
HasOtherColumn(df, columns) ==
    \E i \in 1..Len(df) : \E c \in columns : df[i].row[c].t = "other"

\* whether the two files are among those described: no column is "other",
\* and the date columns that lines 77 and 78 convert are of a kind described
FilesConsidered(client_file, blockboard_file) ==
    LET client_read == ReadClientCsv(client_file)
        blockboard_read == ReadBlockboardCsv(blockboard_file)
    IN  /\ ~HasOtherColumn(client_read,
                           {"transaction_id", "order_medium", "easternstandardate"})
        /\ ~HasOtherColumn(blockboard_read, {"OrderID", "Date"})
        /\ DateColumnKind(ClientDates(client_read)) # "other"
        /\ DateColumnKind(VendorDates(FilteredBlockboard(blockboard_read))) # "other"

\* the function's result, or the exception it raises, for two files that
\* are FilesConsidered: line 77 converts the client dates, line 78 the dates
\* of blockboard_df, which the rows with "VALUE" ids have left
load_and_process_data(client_file, blockboard_file) ==
    LET client_read == ReadClientCsv(client_file)
        blockboard_read == ReadBlockboardCsv(blockboard_file)
        blockboard_df == FilteredBlockboard(blockboard_read)
    IN  IF \/ ConversionRaises(ClientDates(client_read))
           \/ ConversionRaises(VendorDates(blockboard_df))
        THEN [raised |-> "ValueError", client_df |-> NoFrame,
              blockboard_df_deduped |-> NoFrame]
        ELSE [raised |-> "none", client_df |-> SortClient(client_read),
              blockboard_df_deduped |-> VendorCleaner(blockboard_read)]

\* ------------------------------------------------------ matching functions
ColOrderID == <<"O", "r", "d", "e", "r", " ", "I", "D">>
ColDate == <<"D", "a", "t", "e">>

Range(seq) == {seq[i] : i \in 1..Len(seq)}

paid_search == <<"p", "a", "i", "d", "_", "s", "e", "a", "r", "c", "h">>
direct == <<"d", "i", "r", "e", "c", "t">>
none == <<"n", "o", "n", "e">>
organic == <<"o", "r", "g", "a", "n", "i", "c">>
cpc == <<"c", "p", "c">>
paren_none == <<"(", "n", "o", "n", "e", ")">>
tv == <<"t", "v">>
null == <<"n", "u", "l", "l">>

CrepeEraseMedia == {paid_search, direct, none, organic}
NutrisystemMedia == {cpc, paren_none, organic, tv, null}
SmileactivesMedia == {paid_search, direct, none, organic}

\* Series.isin(list of str): a str value that is in the list
IsIn(v, allowed) == v.t = "str" /\ v.s \in allowed

\* "order_id in client_transaction_ids", the list holding str only
InIds(v, ids) == v.t = "str" /\ v.s \in Range(ids)

\* the ids of every client row, the medium filter left out
UnfilteredTransactionIds(df, allowed) ==
    [i \in 1..Len(df) |-> Strip(AsStr(df[i].row.transaction_id).s)]

\* client_df[order_medium.isin(allowed)]['transaction_id'].astype(str), each
\* id stripped
ClientTransactionIds(df, allowed) ==
    LET filtered_client_df ==
            RowsAt(df, {i \in 1..Len(df) : IsIn(df[i].row.order_medium, allowed)}, 1)
    IN  [i \in 1..Len(filtered_client_df) |->
            Strip(AsStr(filtered_client_df[i].row.transaction_id).s)]

\* a count of the client ids found among the vendor ids
CountClientSide(ids, blockboard_df) ==
    Cardinality({i \in 1..Len(ids) :
                   \E j \in 1..Len(blockboard_df) :
                      blockboard_df[j].row.OrderID = [t |-> "str", s |-> ids[i]]})

\* a row-by-row comparison of the two id columns
CountPositional(ids, blockboard_df) ==
    Cardinality({i \in 1..Min(Len(ids), Len(blockboard_df)) :
                   blockboard_df[i].row.OrderID = [t |-> "str", s |-> ids[i]]})

\* sum(1 for order_id in set(blockboard_df["Order ID"]) if order_id in ids)
MatchCount(ids, blockboard_df) ==
    LET blockboard_order_set ==
            {blockboard_df[j].row.OrderID : j \in 1..Len(blockboard_df)}
    IN  Cardinality({order_id \in blockboard_order_set : InIds(order_id, ids)})

\* [row.to_dict() for index, row in blockboard_df.iterrows() if ... in ids]
MatchedRows(ids, blockboard_df) ==
    LET kept == RowsAt(blockboard_df,
                       {i \in 1..Len(blockboard_df) :
                          InIds(blockboard_df[i].row.OrderID, ids)}, 1)
    IN  [i \in 1..Len(kept) |-> kept[i].row]

\* pd.DataFrame(list of dicts): a fresh RangeIndex, and the columns are the
\* keys of the dicts, so an empty list gives a frame without columns
DataFrame(dicts) ==
    [columns |-> IF dicts = <<>> THEN {}
                 ELSE {ColOrderID, ColDate} \cup DOMAIN dicts[1].cells,
     rows |-> [i \in 1..Len(dicts) |-> [idx |-> i - 1, row |-> dicts[i]]]]

\* the body the three matching functions share
OrderMatching(df, blockboard_df, allowed) ==
    LET client_transaction_ids == ClientTransactionIds(df, allowed)
    IN  <<MatchCount(client_transaction_ids, blockboard_df),
          DataFrame(MatchedRows(client_transaction_ids, blockboard_df))>>

crepe_erase_order_matching(df, blockboard_df) ==
    OrderMatching(df, blockboard_df, CrepeEraseMedia)

nutrisystem_order_matching(df, blockboard_df) ==
    OrderMatching(df, blockboard_df, NutrisystemMedia)

smileactives_order_matching(df, blockboard_df) ==
    OrderMatching(df, blockboard_df, SmileactivesMedia)

MatchingFunctions == {"crepe_erase", "nutrisystem", "smileactives"}

\* the matching function named fn, called on the two frames
ApplyMatching(fn, df, blockboard_df) ==
    CASE fn = "crepe_erase" -> crepe_erase_order_matching(df, blockboard_df)
      [] fn = "nutrisystem" -> nutrisystem_order_matching(df, blockboard_df)
      [] fn = "smileactives" -> smileactives_order_matching(df, blockboard_df)

\* ------------------------------------------------------------------ inputs
BothFiles == {"client", "blockboard"}

\* the values of the names before they are assigned
NoMetrics == [revenue |-> 0, profit |-> 0, profit_margin |-> <<0, 1>>, cpo |-> <<0, 1>>]
NoMatches == [columns |-> {}, rows |-> <<>>]

ColLeads == <<"L", "e", "a", "d", "s">>
ColLeadsWeb == <<"L", "e", "a", "d", "s", " ", "W", "e", "b">>
ColLead == <<"L", "e", "a", "d">>
ColLower == <<"l", "e", "a", "d", "s">>
VendorColumns == {ColLeads, ColLeadsWeb, ColLead, ColLower}

\* a row's cells: "Leads" holds v, "Leads Web" holds 1, the other two hold w
Cells(v, w) ==
    [c \in VendorColumns |-> IF c = ColLeads THEN v
                             ELSE IF c = ColLeadsWeb THEN 1 ELSE w]

Date9 == <<"1", "/", "9", "/", "2", "0", "2", "4">>
Date10 == <<"1", "/", "1", "0", "/", "2", "0", "2", "4">>
NotADate == <<"2", "/", "3", "0", "/", "2", "0", "2", "4">>
DateLast == <<"4", "/", "1", "1", "/", "2", "2", "6", "2">>
DateDayFirst == <<"1", "3", "/", "1", "/", "2", "0", "2", "4">>
DateNumber45300 == <<"4", "5", "3", "0", "0">>
DateNumber0 == <<"-", "0">>
DateMissing == <<>>

IdA1 == <<"A", "1">>
IdA1Padded == <<" ", "U+00A0", "A", "1", "\f">>
IdA1Lower == <<"a", "1", " ">>
IdB2 == <<"B", "2">>
IdC3 == <<"C", "3">>
IdValueError == <<"#", "V", "A", "L", "U", "E", "!">>
IdNA == <<"N", "A">>
IdNull == <<"n", "u", "l", "l">>
Id07 == <<"0", "7">>
Id7 == <<"7">>
Id7Point0 == <<" ", "7", ".", "0">>
IdLong == <<"1", "2", "3", "4", "5", "6", "7", "8", "9", "0", "1", "2", "3", "4", "5", "6">>
email == <<"e", "m", "a", "i", "l">>

\* every sequence of at most n elements of S
SeqsUpTo(S, n) == UNION {[1..k -> S] : k \in 0..n}

VendorRow(id, d, v) == [OrderID |-> id, Date |-> d, cells |-> Cells(v, 3)]

\* vendor CSVs for the cleaner: ids padded with whitespace, an error id,
\* missing-value ids, number ids, one of them of 16 digits (an int64, but
\* no float64 that str() writes in full), two dates that sort differently as
\* text and as dates, the last date of a Timestamp, a date with the day
\* first, dates that are numbers, a missing date, a day that does not
\* exist, lead counts below and above 1
CleanerRows ==
    {VendorRow(IdA1, Date9, 0), VendorRow(IdA1, Date10, 3),
     VendorRow(IdA1Padded, Date9, 3),
     VendorRow(IdB2, Date10, 3), VendorRow(IdValueError, Date9, 3),
     VendorRow(IdNA, Date9, 0), VendorRow(IdNull, Date10, 3),
     VendorRow(Id07, Date9, 3), VendorRow(Id7, Date10, 0),
     VendorRow(Id7Point0, Date9, 0), VendorRow(IdLong, Date10, 3),
     VendorRow(IdC3, DateLast, 0), VendorRow(IdC3, DateMissing, 3),
     VendorRow(IdB2, DateDayFirst, 3),
     VendorRow(IdA1, DateNumber45300, 3), VendorRow(IdA1Padded, DateNumber0, 0),
     VendorRow(IdB2, NotADate, 0), VendorRow(IdValueError, NotADate, 3)}

\* vendor CSVs for the matchers
MatcherRows ==
    {VendorRow(id, Date9, 1) : id \in {IdA1, IdA1Lower, IdB2, IdNA}}

\* the vendor CSV of the end-to-end scenario: ids "a1 ", "B2", "C3"
ScenarioVendorFile ==
    <<VendorRow(IdA1Lower, Date9, 1), VendorRow(IdB2, Date9, 1),
      VendorRow(IdC3, Date9, 1)>>

ClientRowOn(id, m, d) ==
    [transaction_id |-> id, order_medium |-> m, easternstandardate |-> d]

ClientRow(id, m) == ClientRowOn(id, m, Date9)

\* client CSVs for the matchers: "organic" is allowed for every client,
\* "email" for none, "cpc" for Nutrisystem only, "direct" for the other two;
\* a "null" cell is read as a missing value, and so is an empty date; one
\* date has the day first and one is a number
ClientRows ==
    {ClientRow(IdA1, organic), ClientRow(IdB2, email),
     ClientRowOn(IdA1Padded, cpc, DateDayFirst),
     ClientRowOn(IdNA, direct, DateNumber45300),
     ClientRowOn(IdA1, null, DateMissing)}

\* inputs for the order-independence check: the first two vendor rows trim
\* to the same id and differ in Date
ReorderVendorRows ==
    {VendorRow(IdA1, Date9, 1), VendorRow(IdA1Padded, Date10, 3),
     VendorRow(IdB2, Date10, 0)}

ReorderClientRows == {ClientRow(IdA1, organic), ClientRow(IdB2, cpc)}

\* the names before the run
Unassigned ==
    /\ client_df = NoFrame
    /\ blockboard_df_deduped = NoFrame
    /\ num_blockboard_orders_unique = 0
    /\ num_blockboard_orders = 0
    /\ passed_df = NoFrame
    /\ matcher = ""
    /\ match_count = 0
    /\ matched_df = NoMatches
    /\ metrics = NoMetrics
    /\ shown = {}
    /\ exception = "none"
    /\ bound = {}
    /\ pc = "start"

\* ---------------------------------------------------- the cleaner, applied
InitClean ==
    /\ uploaded_blockboard_file \in SeqsUpTo(CleanerRows, MaxVendorRows)
    /\ uploaded_client_file = <<>>
    /\ files = BothFiles
    /\ client_selection = ""
    /\ cpa = 0
    /\ blockboard_spend = 0
    /\ Unassigned

\* lines 126-131: the call of load_and_process_data and the two counts
LoadAndProcess ==
    /\ pc = "start"
    /\ files = BothFiles
    /\ FilesConsidered(uploaded_client_file, uploaded_blockboard_file)
    /\ \E loaded \in {load_and_process_data(uploaded_client_file, uploaded_blockboard_file)} :
           IF loaded.raised # "none"
           THEN /\ exception' = loaded.raised
                /\ pc' = "failed"
                /\ UNCHANGED <<loaded_names, bound>>
           ELSE /\ client_df' = loaded.client_df
                /\ blockboard_df_deduped' = loaded.blockboard_df_deduped
                /\ num_blockboard_orders_unique' =
                      Cardinality({loaded.blockboard_df_deduped[i].row.OrderID :
                                     i \in 1..Len(loaded.blockboard_df_deduped)})
                /\ num_blockboard_orders' = Len(loaded.blockboard_df_deduped)
                /\ bound' = bound \cup {"client_df", "blockboard_df_deduped",
                                        "num_blockboard_orders_unique",
                                        "num_blockboard_orders"}
                /\ pc' = "loaded"
                /\ UNCHANGED exception
    /\ UNCHANGED <<inputs, matched_names, metrics, shown>>

NextClean == LoadAndProcess

SpecClean == InitClean /\ [][NextClean]_vars

\* the raw vendor row a cleaned row came from
RawRow(r) == uploaded_blockboard_file[r.idx + 1]

\* the vendor rows after line 63: read, the Order IDs made str and trimmed
TrimmedRows == StripOrderIds(ReadBlockboardCsv(uploaded_blockboard_file))

Cleaned == pc = "loaded"

\* C1: the cleaner's output has no two rows with the same Order ID (ids that
\* differ only by surrounding whitespace being the same id), and no Order ID
\* that contains "VALUE"
C1_NoDuplicateNoValue ==
    Cleaned =>
        LET out == blockboard_df_deduped
        IN  /\ \A i, j \in 1..Len(out) :
                 i # j => /\ out[i].row.OrderID # out[j].row.OrderID
                          /\ Strip(RawRow(out[i]).OrderID) # Strip(RawRow(out[j]).OrderID)
            /\ \A i \in 1..Len(out) :
                 /\ out[i].row.OrderID.t = "str"
                 /\ \A k \in 1..(Len(out[i].row.OrderID.s) - 4) :
                      SubSeq(out[i].row.OrderID.s, k, k + 4) # <<"V", "A", "L", "U", "E">>

C1_Witness ==
    /\ Cleaned
    /\ uploaded_blockboard_file # <<>>
    /\ \E i, j \in 1..Len(uploaded_blockboard_file) :
          /\ uploaded_blockboard_file[i].OrderID = IdA1
          /\ uploaded_blockboard_file[j].OrderID = IdA1Padded
    /\ \E i \in 1..Len(uploaded_blockboard_file) :
          uploaded_blockboard_file[i].OrderID = IdValueError
    /\ Len(blockboard_df_deduped) = 1

\* C4: cleaning the cleaner's output again (trim, drop "VALUE" rows, dedup
\* keeping the first, clamp the Leads columns, with or without the sort)
\* gives the same frame
C4_Idempotent ==
    Cleaned =>
        /\ CleanSteps(blockboard_df_deduped) = blockboard_df_deduped
        /\ VendorCleaner(blockboard_df_deduped) = blockboard_df_deduped

C4_Witness ==
    /\ Cleaned
    /\ Len(uploaded_blockboard_file) = 3
    /\ Len(blockboard_df_deduped) = 2
    /\ \E i \in 1..3 : uploaded_blockboard_file[i].cells[ColLeads] = 3
    /\ \E i \in 1..3 : uploaded_blockboard_file[i].OrderID = IdA1Padded
    /\ VendorCleaner(blockboard_df_deduped) = blockboard_df_deduped

\* C8: in the output every cell of a column whose name starts with "Leads"
\* is min(raw cell, 1), and every cell of another column is the raw cell
C8_LeadsClamped ==
    Cleaned =>
        \A i \in 1..Len(blockboard_df_deduped) :
            LET r == blockboard_df_deduped[i]
                raw == RawRow(r).cells
            IN  /\ r.row.cells[ColLeads] = IF raw[ColLeads] > 1 THEN 1 ELSE raw[ColLeads]
                /\ r.row.cells[ColLeadsWeb] =
                       IF raw[ColLeadsWeb] > 1 THEN 1 ELSE raw[ColLeadsWeb]
                /\ r.row.cells[ColLead] = raw[ColLead]
                /\ r.row.cells[ColLower] = raw[ColLower]

C8_Witness ==
    /\ Cleaned
    /\ \E i \in 1..Len(blockboard_df_deduped) :
          LET r == blockboard_df_deduped[i]
          IN  /\ RawRow(r).cells[ColLeads] = 3
              /\ r.row.cells[ColLeads] = 1
              /\ r.row.cells[ColLower] = 3
    /\ \E i \in 1..Len(blockboard_df_deduped) :
          LET r == blockboard_df_deduped[i]
          IN  RawRow(r).cells[ColLeads] = 0 /\ r.row.cells[ColLeads] = 0

\* C9: for each trimmed id without "VALUE" the surviving row is the earliest
\* raw row with that trimmed id, whatever order the sort by Date leaves; the
\* trimmed id of a row is its Order ID after line 63
C9_FirstOccurrenceWins ==
    Cleaned =>
        LET out == blockboard_df_deduped
            trimmed == TrimmedRows
        IN  /\ \A i \in 1..Len(out) :
                 /\ trimmed[out[i].idx + 1].row.OrderID = out[i].row.OrderID
                 /\ trimmed[out[i].idx + 1].row.Date = out[i].row.Date
                 /\ \A k \in 1..out[i].idx :
                      trimmed[k].row.OrderID # out[i].row.OrderID
            /\ \A k \in 1..Len(trimmed) :
                 ~Contains(trimmed[k].row.OrderID.s, VALUE) =>
                    \E i \in 1..Len(out) : out[i].row.OrderID = trimmed[k].row.OrderID

\* a duplicate was dropped and the sort moved a later raw row first
C9_Witness ==
    /\ Cleaned
    /\ Len(uploaded_blockboard_file) = 3
    /\ Len(blockboard_df_deduped) = 2
    /\ blockboard_df_deduped[1].idx > blockboard_df_deduped[2].idx
    /\ \E k \in 1..3 : /\ k - 1 \notin {blockboard_df_deduped[i].idx : i \in 1..2}
                       /\ ~Contains(uploaded_blockboard_file[k].OrderID, VALUE)

\* ------------------------------------------- the matching functions, applied
InitMatch ==
    /\ uploaded_client_file \in SeqsUpTo(ClientRows, MaxClientRows)
    /\ uploaded_blockboard_file
          \in SeqsUpTo(MatcherRows, MaxVendorRows) \cup {ScenarioVendorFile}
    /\ files = BothFiles
    /\ client_selection = ""
    /\ cpa = 0
    /\ blockboard_spend = 0
    /\ Unassigned

\* a matching function called on the results of load_and_process_data
MatchCleaned(fn) ==
    /\ pc = "loaded"
    /\ \E result \in {ApplyMatching(fn, client_df, blockboard_df_deduped)} :
           /\ match_count' = result[1]
           /\ matched_df' = result[2]
    /\ passed_df' = blockboard_df_deduped
    /\ matcher' = fn
    /\ bound' = bound \cup {"match_count", "matched_df"}
    /\ pc' = "matched"
    /\ UNCHANGED <<inputs, loaded_names, metrics, shown, exception>>

\* a matching function called on the two frames as read_csv gives them
MatchRaw(fn) ==
    /\ pc = "start"
    /\ \E raw_client \in {ReadClientCsv(uploaded_client_file)},
          raw_blockboard \in {ReadBlockboardCsv(uploaded_blockboard_file)} :
         \E result \in {ApplyMatching(fn, raw_client, raw_blockboard)} :
           /\ ~HasOtherColumn(raw_client, {"transaction_id", "order_medium"})
           /\ ~HasOtherColumn(raw_blockboard, {"OrderID"})
           /\ client_df' = raw_client
           /\ passed_df' = raw_blockboard
           /\ match_count' = result[1]
           /\ matched_df' = result[2]
    /\ matcher' = fn
    /\ bound' = bound \cup {"match_count", "matched_df"}
    /\ pc' = "matched_raw"
    /\ UNCHANGED <<inputs, blockboard_df_deduped, num_blockboard_orders_unique,
                   num_blockboard_orders, metrics, shown, exception>>

NextMatch ==
    \/ LoadAndProcess
    \/ \E fn \in MatchingFunctions : MatchCleaned(fn)
    \/ \E fn \in MatchingFunctions : MatchRaw(fn)

SpecMatch == InitMatch /\ [][NextMatch]_vars

InitReorder ==
    /\ uploaded_client_file \in SeqsUpTo(ReorderClientRows, MaxClientRows)
    /\ uploaded_blockboard_file \in SeqsUpTo(ReorderVendorRows, MaxVendorRows)
    /\ files = BothFiles
    /\ client_selection = ""
    /\ cpa = 0
    /\ blockboard_spend = 0
    /\ Unassigned

\* the Date column of the frame of matched rows
MatchedDates == [i \in 1..Len(matched_df.rows) |-> matched_df.rows[i].row.Date]

\* lines 86-103, create_matched_orders_chart(matched_df): line 88 reads the
\* Date column, a KeyError on the frame without columns that pd.DataFrame
\* makes of no matched rows, converts it and stores it in the caller's
\* frame; lines 91-103 count the rows of each day and build the chart that
\* is returned, and change nothing else
CreateChart ==
    /\ pc \in {"matched", "matched_raw"}
    /\ IF ColDate \notin matched_df.columns
       THEN /\ exception' = "KeyError"
            /\ pc' = "failed"
            /\ UNCHANGED matched_df
       ELSE /\ DateColumnKind(MatchedDates) # "other"
            /\ IF ConversionRaises(MatchedDates)
               THEN /\ exception' = "ValueError"
                    /\ pc' = "failed"
                    /\ UNCHANGED matched_df
               ELSE /\ matched_df' =
                          [matched_df EXCEPT !.rows =
                              [i \in 1..Len(@) |->
                                  [@[i] EXCEPT !.row.Date = ToDatetime(MatchedDates)[i]]]]
                    /\ pc' = "charted"
                    /\ UNCHANGED exception
    /\ UNCHANGED <<inputs, loaded_names, passed_df, matcher, match_count, metrics,
                   shown, bound>>

NextReorder ==
    \/ LoadAndProcess
    \/ \E fn \in MatchingFunctions : MatchCleaned(fn)
    \/ CreateChart

SpecReorder == InitReorder /\ [][NextReorder]_vars

Matched == pc \in {"matched", "matched_raw"}
MatchedOnCleaned == pc = "matched"

\* the trimmed transaction ids of the rows of the client frame whose medium
\* the matching function that ran allows
QualifiedClientIds ==
    LET allowed == IF matcher = "nutrisystem"
                   THEN {<<"c", "p", "c">>, <<"(", "n", "o", "n", "e", ")">>, <<"o", "r", "g", "a", "n", "i", "c">>, <<"t", "v">>, <<"n", "u", "l", "l">>}
                   ELSE {<<"p", "a", "i", "d", "_", "s", "e", "a", "r", "c", "h">>, <<"d", "i", "r", "e", "c", "t">>, <<"n", "o", "n", "e">>, <<"o", "r", "g", "a", "n", "i", "c">>}
    IN  {[t |-> "str", s |-> Strip(client_df[i].row.transaction_id.s)] :
            i \in {k \in 1..Len(client_df) :
                     /\ client_df[k].row.order_medium.t = "str"
                     /\ client_df[k].row.order_medium.s \in allowed}}

\* a cleaned vendor row is among the matched rows exactly when its id is the
\* trimmed id of a qualified client row, and then it is there once; the count
\* is the number of such rows
MatchIsMembership ==
    /\ \A i \in 1..Len(passed_df) :
          Cardinality({k \in 1..Len(matched_df.rows) :
                         matched_df.rows[k].row = passed_df[i].row})
            = IF passed_df[i].row.OrderID \in QualifiedClientIds THEN 1 ELSE 0
    /\ \A k \in 1..Len(matched_df.rows) :
          \E i \in 1..Len(passed_df) : matched_df.rows[k].row = passed_df[i].row
    /\ match_count = Cardinality({i \in 1..Len(passed_df) :
                                    passed_df[i].row.OrderID \in QualifiedClientIds})

\* the spec's end-to-end scenario: client A1/organic and B2/email, vendor
\* "a1 ", "B2", "C3"
Scenario ==
    /\ uploaded_client_file = <<ClientRow(IdA1, organic), ClientRow(IdB2, email)>>
    /\ uploaded_blockboard_file = ScenarioVendorFile

\* C2 as stated: membership matching, and the scenario counts one match
C2_ScenarioCountsOne ==
    MatchedOnCleaned => /\ MatchIsMembership
                        /\ Scenario => match_count = 1

\* C2: for each matching function a cleaned vendor row is matched exactly
\* when its id equals, case-sensitively, the trimmed transaction id of some
\* row of the client frame with an allowed medium, and it is matched once
\* however often that id occurs; in the scenario nothing matches ("a1 " trims
\* to "a1", not "A1", and B2's medium is not allowed), so the count is 0
C2_MembershipMatch ==
    MatchedOnCleaned => /\ MatchIsMembership
                        /\ Scenario => match_count = 0 /\ matched_df.rows = <<>>

\* an id that occurs twice among the qualified client rows, once padded with
\* a space, a no-break space and a form feed, matches once
C2_Witness ==
    /\ MatchedOnCleaned
    /\ matcher = "nutrisystem"
    /\ uploaded_client_file
          = <<ClientRowOn(IdA1Padded, cpc, DateDayFirst), ClientRow(IdA1, organic)>>
    /\ Len(passed_df) = 3
    /\ match_count = 1
    /\ Len(matched_df.rows) = 1
    /\ matched_df.rows[1].row.OrderID = [t |-> "str", s |-> IdA1]

\* pairwise distinct under Python's ==, for which nan equals no value
DistinctOrderIds(df) ==
    \A i, j \in 1..Len(df) :
        i # j => \/ df[i].row.OrderID # df[j].row.OrderID
                 \/ df[i].row.OrderID = NaN

\* C3: when the vendor frame passed to a matching function has pairwise
\* distinct Order IDs, match_count is the number of matched rows and at most
\* the number of unique vendor ids (for the cleaner's output, the count of
\* line 130)
C3_CountEqualsRows ==
    (Matched /\ DistinctOrderIds(passed_df)) =>
        /\ match_count = Len(matched_df.rows)
        /\ match_count <= Cardinality({passed_df[i].row.OrderID : i \in 1..Len(passed_df)})
        /\ MatchedOnCleaned => match_count <= num_blockboard_orders_unique

C3_Witness ==
    /\ Matched
    /\ DistinctOrderIds(passed_df)
    /\ Len(passed_df) = 3
    /\ Len(uploaded_client_file) = 2
    /\ uploaded_client_file[1].transaction_id = IdA1Padded
    /\ uploaded_client_file[2].transaction_id = IdA1
    /\ match_count = 1
    /\ Len(matched_df.rows) = 1

\* the rearrangements of a sequence
Rearrangements(seq) ==
    {[i \in 1..Len(seq) |-> seq[f[i]]] :
        f \in {g \in [1..Len(seq) -> 1..Len(seq)] :
                 \A a, b \in 1..Len(seq) : a # b => g[a] # g[b]}}

\* C5: cleaning and matching every rearrangement of the client rows and of
\* the raw vendor rows gives the match_count of the run
C5_OrderIndependent ==
    MatchedOnCleaned =>
        \A cleaned \in {VendorCleaner(ReadBlockboardCsv(blockboard_file)) :
                            blockboard_file \in Rearrangements(uploaded_blockboard_file)} :
            \A sorted \in {SortClient(ReadClientCsv(client_file)) :
                               client_file \in Rearrangements(uploaded_client_file)} :
                ApplyMatching(matcher, sorted, cleaned)[1] = match_count

\* a run where the dedup keeps another row than it does for the reversed file
C5_Witness ==
    /\ MatchedOnCleaned
    /\ Len(uploaded_blockboard_file) = 3
    /\ Len(uploaded_client_file) = 2
    /\ uploaded_client_file[1] # uploaded_client_file[2]
    /\ match_count = 2
    /\ \E blockboard_file \in Rearrangements(uploaded_blockboard_file) :
          VendorCleaner(ReadBlockboardCsv(blockboard_file))[1].row.cells
            # blockboard_df_deduped[1].row.cells

\* ------------------------------------------------------------ calculations
\* amounts (cpa, spend, revenue, profit) are whole cents; a quotient is the
\* exact fraction <<numerator, denominator>> in lowest terms, denominator > 0
RECURSIVE Gcd(_, _)
Gcd(a, b) == IF b = 0 THEN a ELSE Gcd(b, a % b)

Abs(a) == IF a < 0 THEN -a ELSE a

\* a / b for b # 0
Quotient(a, b) ==
    LET g == Gcd(Abs(a), Abs(b))
        sign == IF b < 0 THEN -1 ELSE 1
    IN  <<sign * (a \div g), sign * (b \div g)>>

Zero == <<0, 1>>

\* a zero-guard that tests the match count where the code tests the revenue
MarginGuardOnCount(mc, rev) == mc # 0

\* line 160: "if revenue != 0"
MarginGuard(mc, rev) == rev # 0

\* line 170: "if match_count != 0"
CpoGuard(mc) == mc # 0

\* lines 157-160: revenue, profit and profit margin from cpa, match_count
\* and blockboard_spend
Calculate ==
    /\ pc = "calculating"
    /\ LET rev == cpa * match_count
           prof == rev - blockboard_spend
       IN  IF MarginGuard(match_count, rev) /\ rev = 0
           THEN /\ exception' = "ZeroDivisionError"
                /\ pc' = "failed"
                /\ UNCHANGED <<metrics, bound>>
           ELSE /\ metrics' = [metrics EXCEPT
                       !.revenue = rev,
                       !.profit = prof,
                       !.profit_margin =
                           IF MarginGuard(match_count, rev)
                           THEN Quotient(prof * 100, rev) ELSE Zero]
                /\ bound' = bound \cup {"revenue", "total_cost", "profit", "profit_margin"}
                /\ pc' = "calculated"
                /\ UNCHANGED exception
    /\ UNCHANGED <<inputs, loaded_names, matched_names, shown>>

\* lines 163-171: the results are written to the page; the cost per order is
\* computed in the line that formats it
DisplayResults ==
    /\ pc = "calculated"
    /\ IF CpoGuard(match_count) /\ match_count = 0
       THEN /\ exception' = "ZeroDivisionError"
            /\ pc' = "failed"
            /\ UNCHANGED <<metrics, shown>>
       ELSE /\ metrics' = [metrics EXCEPT !.cpo =
                              IF CpoGuard(match_count)
                              THEN Quotient(blockboard_spend, match_count) ELSE Zero]
            /\ shown' = shown \cup {"results"}
            /\ pc' = "displayed"
            /\ UNCHANGED exception
    /\ UNCHANGED <<inputs, loaded_names, matched_names, bound>>

CpaValues == {0, 1, 2500}
SpendValues == {0, 3333, 10000}

\* the calculations on every match count, cpa and spend of the value sets
InitMetrics ==
    /\ match_count \in 0..MaxMatchCount
    /\ cpa \in CpaValues
    /\ blockboard_spend \in SpendValues
    /\ bound = {"match_count"}
    /\ pc = "calculating"
    /\ files = BothFiles
    /\ client_selection = "Crepe Erase"
    /\ uploaded_client_file = <<>>
    /\ uploaded_blockboard_file = <<>>
    /\ client_df = NoFrame
    /\ blockboard_df_deduped = NoFrame
    /\ num_blockboard_orders_unique = 0
    /\ num_blockboard_orders = 0
    /\ passed_df = NoFrame
    /\ matcher = ""
    /\ matched_df = NoMatches
    /\ metrics = NoMetrics
    /\ shown = {}
    /\ exception = "none"

NextMetrics == Calculate \/ DisplayResults

SpecMetrics == InitMetrics /\ [][NextMetrics]_vars

\* C7: revenue = cpa * match_count, profit = revenue - spend, the margin is
\* profit / revenue * 100 when revenue # 0 and exactly 0 otherwise, the cost
\* per order is spend / match_count when match_count > 0 and exactly 0
\* otherwise, no division by zero is raised, and (10, 25.00, 100.00) gives
\* 250.00, 150.00, 60, 10.00
C7_Metrics ==
    /\ exception = "none"
    /\ pc \in {"calculated", "displayed"} =>
          /\ metrics.revenue = cpa * match_count
          /\ metrics.profit = metrics.revenue - blockboard_spend
          /\ metrics.profit_margin[2] > 0
          /\ metrics.revenue # 0 =>
                metrics.profit_margin[1] * metrics.revenue
                  = metrics.profit * 100 * metrics.profit_margin[2]
          /\ metrics.revenue = 0 => metrics.profit_margin = <<0, 1>>
    /\ pc = "displayed" =>
          /\ metrics.cpo[2] > 0
          /\ match_count > 0 =>
                metrics.cpo[1] * match_count = blockboard_spend * metrics.cpo[2]
          /\ match_count = 0 => metrics.cpo = <<0, 1>>
          /\ (match_count = 10 /\ cpa = 2500 /\ blockboard_spend = 10000) =>
                /\ metrics.revenue = 25000
                /\ metrics.profit = 15000
                /\ metrics.profit_margin = <<60, 1>>
                /\ metrics.cpo = <<1000, 1>>

\* matches at a zero cpa: the revenue is 0 while the count is not
C7_Witness ==
    /\ pc = "displayed"
    /\ cpa = 0
    /\ match_count = 3
    /\ blockboard_spend = 10000
    /\ metrics.profit_margin = <<0, 1>>
    /\ metrics.cpo = <<10000, 3>>

\* ------------------------------------------------------- the script's run
\* Running the page is compiling ordermatching.py and then executing its
\* statements.  In lines 138-142 (and again in 144-148 and 150-154) the call
\* that renders the chart stands inside the argument list of the call of the
\* matching function, with no comma before it: the file is not a Python
\* program, the compiler raises SyntaxError at line 139, and no statement of
\* the script is executed, whatever the widgets hold.
ClientChoices == {"", "Crepe Erase", "Nutrisystem", "Smileactives"}

AppVendorRows == {VendorRow(IdA1, Date10, 3), VendorRow(IdB2, Date9, 1)}

AppClientRows == {ClientRow(IdA1, organic), ClientRow(IdB2, email), ClientRow(IdB2, cpc)}

Init ==
    /\ client_selection \in ClientChoices
    /\ files \in SUBSET BothFiles
    /\ uploaded_client_file \in
          IF "client" \in files THEN SeqsUpTo(AppClientRows, MaxClientRows) ELSE {<<>>}
    /\ uploaded_blockboard_file \in
          IF "blockboard" \in files THEN SeqsUpTo(AppVendorRows, MaxVendorRows) ELSE {<<>>}
    /\ cpa \in {0, 2500}
    /\ blockboard_spend = 10000
    /\ Unassigned

\* the compilation of the script fails; nothing is assigned or shown
CompileScript ==
    /\ pc = "start"
    /\ exception' = "SyntaxError"
    /\ pc' = "failed"
    /\ UNCHANGED <<inputs, loaded_names, matched_names, metrics, shown, bound>>

Next == CompileScript

Spec == Init /\ [][Next]_vars

KnownClients == {"Crepe Erase", "Nutrisystem", "Smileactives"}
RunEnded == pc \in {"done", "failed"}

\* C6: with both files uploaded and a selection that is no known client, the
\* run ends with match_count = 0 and an empty matched frame and without an
\* exception
C6_UnknownClientZeroMatches ==
    (RunEnded /\ files = BothFiles /\ client_selection \notin KnownClients) =>
        /\ exception = "none"
        /\ "match_count" \in bound /\ match_count = 0
        /\ "matched_df" \in bound /\ matched_df.rows = <<>>

====
